---------------------------- MODULE Spec2Model ----------------------------
(***************************************************************************)
(* Model of tuned_lens/model_surgery.py: key-path lookup and assignment    *)
(* over a tree of torch modules, and the context managers that temporarily *)
(* delete, permute or replace the transformer layers of a model.           *)
(*                                                                         *)
(* A string is a sequence of one-character strings, so that split("."),    *)
(* isdigit(), int() and str() are computed and not assumed.                *)
(* An nn.Module is an object with a class and an ordered dictionary        *)
(* `modules` of named children (torch's _modules); an nn.ModuleList is a   *)
(* Module whose children are keyed "0", "1", ... and whose len, iteration  *)
(* and indexing read that dictionary.  The heap is a sequence of objects,  *)
(* an object's identity is its position in the heap.                       *)
(***************************************************************************)
EXTENDS Integers, Sequences, FiniteSets, TLC

\* Number of transformer layers of the model under surgery.
NumLayers == 2
\* Longest list of indices (and of replacements) passed to a layer operation.
MaxIndices == 2
\* Deepest nesting of context managers.
MaxDepth == 2
\* Most calls of the module's operations in one run.
MaxCalls == 2

VARIABLES
    heap,   \* the objects: heap[o] = [cls, modules]
    stack,  \* the context managers entered and not yet left, innermost last
    exc,    \* the exception leaving the innermost body, "" when none
    calls,  \* how many calls the run has made
    last    \* what the last step did (history, read by the properties only)

vars == <<heap, stack, exc, calls, last>>

-----------------------------------------------------------------------------
(* Strings *)

Digits == <<"0", "1", "2", "3", "4", "5", "6", "7", "8", "9">>

DOT == "."

IsDigitChar(c) == \E d \in 1..10 : Digits[d] = c

DigitVal(c) == (CHOOSE d \in 1..10 : Digits[d] = c) - 1

\* str.isdigit(): non-empty and made of decimal digits only.
isdigit(s) == Len(s) > 0 /\ \A i \in 1..Len(s) : IsDigitChar(s[i])

\* int(s) of a string of decimal digits.
RECURSIVE int(_)
int(s) ==
    IF Len(s) = 0 THEN 0
    ELSE 10 * int(SubSeq(s, 1, Len(s) - 1)) + DigitVal(s[Len(s)])

\* str(n) of a natural number.
RECURSIVE str(_)
str(n) ==
    IF n < 10 THEN <<Digits[n + 1]>>
    ELSE str(n \div 10) \o <<Digits[(n % 10) + 1]>>

\* s.split("."): the pieces between the dots, empty pieces kept.
RECURSIVE split(_)
split(s) ==
    IF \A i \in 1..Len(s) : s[i] # DOT THEN <<s>>
    ELSE LET p == CHOOSE i \in 1..Len(s) :
                      s[i] = DOT /\ \A j \in 1..(i - 1) : s[j] # DOT
         IN  <<SubSeq(s, 1, p - 1)>> \o split(SubSeq(s, p + 1, Len(s)))

\* ".".join(parts)
RECURSIVE join(_)
join(parts) ==
    IF Len(parts) = 0 THEN <<>>
    ELSE IF Len(parts) = 1 THEN parts[1]
    ELSE parts[1] \o <<DOT>> \o join(Tail(parts))

\* Attribute names the source and the model trees use.
BASE_MODEL == <<"b", "a", "s", "e", "_", "m", "o", "d", "e", "l">>
DECODER == <<"d", "e", "c", "o", "d", "e", "r">>
LAYERS == <<"l", "a", "y", "e", "r", "s">>
H == <<"h">>
ATTENTION == <<"a", "t", "t", "e", "n", "t", "i", "o", "n">>

-----------------------------------------------------------------------------
(* Objects: results are records [err, val]; err = "" means no exception.   *)

Ok(v) == [err |-> "", val |-> v]
Raise(e) == [err |-> e, val |-> 0]

Keys(obj) == {obj.modules[i].k : i \in 1..Len(obj.modules)}

Lookup(obj, name) ==
    obj.modules[CHOOSE i \in 1..Len(obj.modules) : obj.modules[i].k = name].v

\* len(module_list)
len(hp, o) == Len(hp[o].modules)

\* iter(module_list): the children in insertion order.
iter(hp, o) == [i \in 1..Len(hp[o].modules) |-> hp[o].modules[i].v]

\* getattr(obj, name) on an nn.Module: a registered child, or AttributeError.
getattr(hp, o, name) ==
    IF name \in Keys(hp[o]) THEN Ok(Lookup(hp[o], name))
    ELSE Raise("AttributeError")

\* hasattr(obj, name)
hasattr(hp, o, name) == getattr(hp, o, name).err = ""

\* A range check that lets the index one past the end through.
get_abs_string_index_off_by_one(hp, o, idx) ==
    IF ~(-len(hp, o) <= idx /\ idx <= len(hp, o)) THEN Raise("IndexError")
    ELSE Ok(str(IF idx < 0 THEN idx + len(hp, o) ELSE idx))

\* ModuleList._get_abs_string_index: range check against len, then str().
get_abs_string_index(hp, o, idx) ==
    IF ~(-len(hp, o) <= idx /\ idx < len(hp, o)) THEN Raise("IndexError")
    ELSE Ok(str(IF idx < 0 THEN idx + len(hp, o) ELSE idx))

\* obj[idx]: ModuleList.__getitem__; any other module is not subscriptable.
getitem(hp, o, idx) ==
    IF hp[o].cls # "ModuleList" THEN Raise("TypeError")
    ELSE LET key == get_abs_string_index(hp, o, idx)
         IN  IF key.err # "" THEN key
             ELSE IF key.val \in Keys(hp[o]) THEN Ok(Lookup(hp[o], key.val))
             ELSE Raise("KeyError")

\* The dictionary write modules[name] = value: replace in place or append.
Put(mods, name, value) ==
    IF \E i \in 1..Len(mods) : mods[i].k = name
    THEN [i \in 1..Len(mods) |->
             IF mods[i].k = name THEN [k |-> name, v |-> value] ELSE mods[i]]
    ELSE Append(mods, [k |-> name, v |-> value])

\* setattr(obj, name, value) with a module value: registers the child.
setattr(hp, o, name, value) ==
    [hp EXCEPT ![o].modules = Put(@, name, value)]

\* obj[idx] = value: ModuleList.__setitem__.
setitem(hp, o, idx, value) ==
    LET key == get_abs_string_index(hp, o, idx)
    IN  IF key.err # "" THEN [err |-> key.err, heap |-> hp]
        ELSE [err |-> "", heap |-> setattr(hp, o, key.val, value)]

\* del obj[idx]: ModuleList.__delitem__, which renumbers the keys afterwards.
delitem(hp, o, idx) ==
    LET key == get_abs_string_index(hp, o, idx)
    IN  IF key.err # "" THEN [err |-> key.err, heap |-> hp]
        ELSE IF key.val \notin Keys(hp[o])
        THEN [err |-> "AttributeError", heap |-> hp]
        ELSE LET mods == hp[o].modules
                 p == CHOOSE i \in 1..Len(mods) : mods[i].k = key.val
                 kept == SubSeq(mods, 1, p - 1) \o SubSeq(mods, p + 1, Len(mods))
                 renum == [i \in 1..Len(kept) |->
                              [k |-> str(i - 1), v |-> kept[i].v]]
             IN  [err |-> "", heap |-> [hp EXCEPT ![o].modules = renum]]

\* Whether iterating the object works: a ModuleList does, a plain module
\* raises TypeError.
iterable(hp, o) == hp[o].cls = "ModuleList"

\* th.nn.ModuleList(values): a new object, its children keyed "0", "1", ...
ModuleList(hp, values) ==
    Append(hp, [cls |-> "ModuleList",
                modules |-> [i \in 1..Len(values) |->
                                [k |-> str(i - 1), v |-> values[i]]]])

\* The identity of the object the last ModuleList(...) built.
NewId(hp) == Len(hp) + 1

-----------------------------------------------------------------------------
(* Key paths *)

get_value_for_key(hp, o, key) ==
    IF isdigit(key) THEN getitem(hp, o, int(key)) ELSE getattr(hp, o, key)

\* set_value_for_key_: obj[int(key)] = value for a numeric key, setattr
\* otherwise.  Defined by the source and called by none of its functions.
set_value_for_key_(hp, o, key, value) ==
    IF isdigit(key)
    THEN IF hp[o].cls # "ModuleList" THEN [err |-> "TypeError", heap |-> hp]
         ELSE setitem(hp, o, int(key), value)
    ELSE [err |-> "", heap |-> setattr(hp, o, key, value)]

\* The loop of get_key_path and of set_key_path_ over a list of keys.
RECURSIVE walk(_, _, _)
walk(hp, o, keys) ==
    IF Len(keys) = 0 THEN Ok(o)
    ELSE LET r == get_value_for_key(hp, o, Head(keys))
         IN  IF r.err # "" THEN r ELSE walk(hp, r.val, Tail(keys))

get_key_path(hp, model, key_path) == walk(hp, model, split(key_path))

set_key_path_(hp, model, key_path, value) ==
    LET keys == split(key_path)
        r == walk(hp, model, SubSeq(keys, 1, Len(keys) - 1))
    IN  IF r.err # "" THEN [err |-> r.err, heap |-> hp]
        ELSE [err |-> "", heap |-> setattr(hp, r.val, keys[Len(keys)], value)]


-----------------------------------------------------------------------------
(* The models the operations are called on *)

\* Classes of base_model the runs start from; "none": no base_model at all.
Archs ==
    {"OPTModel", "GPTNeoXModel", "BloomModel", "GPT2Model", "GPTNeoModel",
     "GPTJModel", "LlamaModel", "none"}

\* The model every operation is called on.
ROOT == 1

Layer(i) == 2 + i
Spare(j) == NumLayers + 1 + j
X == Spare(1)
Y == Spare(2)
Attention(i) == NumLayers + MaxIndices + 2 + i
LayerList == 2 * NumLayers + MaxIndices + 2
BaseModel == LayerList + 1
Decoder == LayerList + 2

Child(name, o) == [k |-> name, v |-> o]

\* A module without sub-modules.
Leaf == [cls |-> "Module", modules |-> <<>>]

\* Where the layer list of a model of class `arch` hangs.
TreePath(arch) ==
    IF arch = "none" THEN H
    ELSE IF arch = "OPTModel" THEN join(<<BASE_MODEL, DECODER, LAYERS>>)
    ELSE IF arch \in {"GPTNeoXModel", "LlamaModel"} THEN join(<<BASE_MODEL, LAYERS>>)
    ELSE join(<<BASE_MODEL, H>>)

\* A freshly loaded model of class `arch` with NumLayers layers, each with an
\* `attention` sub-module, and the spare modules (X, Y, ...) the caller holds.
Model(arch) ==
    LET root == IF arch = "none"
                THEN [cls |-> "Module", modules |-> <<Child(H, LayerList)>>]
                ELSE [cls |-> "PreTrainedModel",
                      modules |-> <<Child(BASE_MODEL, BaseModel)>>]
        layers == [i \in 1..(NumLayers + MaxIndices) |->
                     IF i <= NumLayers
                     THEN [cls |-> "Layer",
                           modules |-> <<Child(ATTENTION, Attention(i - 1))>>]
                     ELSE Leaf]
        attentions == [i \in 1..NumLayers |-> Leaf]
        list == [cls |-> "ModuleList",
                 modules |-> [i \in 1..NumLayers |-> Child(str(i - 1), Layer(i - 1))]]
        base == IF arch = "none" THEN <<>>
                ELSE IF arch = "OPTModel"
                THEN <<[cls |-> arch, modules |-> <<Child(DECODER, Decoder)>>],
                       [cls |-> "OPTDecoder", modules |-> <<Child(LAYERS, LayerList)>>]>>
                ELSE IF arch \in {"GPTNeoXModel", "LlamaModel"}
                THEN <<[cls |-> arch, modules |-> <<Child(LAYERS, LayerList)>>]>>
                ELSE <<[cls |-> arch, modules |-> <<Child(H, LayerList)>>]>>
    IN  <<root>> \o layers \o attentions \o <<list>> \o base

ArchOf(hp) ==
    IF hasattr(hp, ROOT, BASE_MODEL) THEN hp[getattr(hp, ROOT, BASE_MODEL).val].cls
    ELSE "none"

\* Inputs: lists of indices, in range, negative and out of range.
RECURSIVE SeqsUpTo(_, _)
SeqsUpTo(S, n) ==
    IF n = 0 THEN {<<>>}
    ELSE LET shorter == SeqsUpTo(S, n - 1)
         IN  shorter \cup {Append(q, x) : q \in shorter, x \in S}

IndexLists == SeqsUpTo((0 - NumLayers - 1)..NumLayers, MaxIndices)

\* Inputs: the replacements X, Y, ... in that order, none to MaxIndices of them.
ReplacementLists ==
    {[k \in 1..n |-> Spare(k)] : n \in 0..MaxIndices}

\* Inputs: the key path of the layer list and key paths below it, with an
\* index in range, one past the end, one written with a leading zero, a
\* negative-looking one, and the path of a sub-module of the first layer.
KeyPaths(hp) ==
    LET P == TreePath(ArchOf(hp))
    IN  {P} \cup {P \o <<DOT>> \o str(i) : i \in 0..NumLayers}
            \cup {P \o <<DOT, "0", "1">>, P \o <<DOT, "-", "1">>}
            \cup {join(<<P, <<"0">>, ATTENTION>>)}

Values == {X, Y}

-----------------------------------------------------------------------------
(* Locating the layer list *)

\* isinstance(base_model, OPTModel)
IsOPT(cls) == cls = "OPTModel"

\* isinstance(base_model, GPTNeoXModel)
IsGPTNeoX(cls) == cls = "GPTNeoXModel"

\* The `h` family without GPT-J.
IsBloomLike_without_gptj(cls) ==
    cls \in {"BloomModel", "GPT2Model", "GPTNeoModel"}

\* isinstance(base_model, (BloomModel, GPT2Model, GPTNeoModel, GPTJModel))
IsBloomLike(cls) ==
    cls \in {"BloomModel", "GPT2Model", "GPTNeoModel", "GPTJModel"}

\* get_transformer_layers(model): [err, path, val].
get_transformer_layers(hp, model) ==
    IF ~hasattr(hp, model, BASE_MODEL)
    THEN [err |-> "ValueError", path |-> <<>>, val |-> 0]
    ELSE LET base_model == getattr(hp, model, BASE_MODEL).val
             cls == hp[base_model].cls
         IN  IF ~(IsOPT(cls) \/ IsGPTNeoX(cls) \/ IsBloomLike(cls))
             THEN [err |-> "NotImplementedError", path |-> <<>>, val |-> 0]
             ELSE LET path_to_layers ==
                          <<BASE_MODEL>> \o
                          (IF IsOPT(cls) THEN <<DECODER, LAYERS>>
                           ELSE IF IsGPTNeoX(cls) THEN <<LAYERS>>
                           ELSE <<H>>)
                      path == join(path_to_layers)
                      r == get_key_path(hp, model, path)
                  IN  [err |-> r.err, path |-> path, val |-> r.val]

-----------------------------------------------------------------------------
(* The layer operations: the code before the yield, and the finally block. *)
(* Each returns [err, heap, old]: the new heap and the value the finally   *)
(* block will write back.  A list that was built and then dropped by an    *)
(* exception is unreachable and is not kept.                               *)

\* The indices in the order given, not sorted.
sorted_as_given(indices) == indices

\* sorted(indices, reverse=True)
RECURSIVE sorted_reverse(_)
sorted_reverse(indices) ==
    IF Len(indices) = 0 THEN <<>>
    ELSE LET m == CHOOSE i \in 1..Len(indices) :
                      \A j \in 1..Len(indices) : indices[j] <= indices[i]
         IN  <<indices[m]>> \o
             sorted_reverse(SubSeq(indices, 1, m - 1) \o
                            SubSeq(indices, m + 1, Len(indices)))

\* for i in order: del modified_list[i]
RECURSIVE delete_each(_, _, _)
delete_each(hp, o, order) ==
    IF Len(order) = 0 THEN [err |-> "", heap |-> hp]
    ELSE LET r == delitem(hp, o, Head(order))
         IN  IF r.err # "" THEN r ELSE delete_each(r.heap, o, Tail(order))

\* zip(indices, replacements): as many pairs as the shorter list has.
zip(indices, replacements) ==
    LET n == IF Len(indices) < Len(replacements)
             THEN Len(indices) ELSE Len(replacements)
    IN  [k \in 1..n |-> <<indices[k], replacements[k]>>]

\* The pairs applied last to first, so that the first pair of an index wins.
RECURSIVE replace_each_backwards(_, _, _)
replace_each_backwards(hp, o, pairs) ==
    IF Len(pairs) = 0 THEN [err |-> "", heap |-> hp]
    ELSE LET n == Len(pairs)
             r == setitem(hp, o, pairs[n][1], pairs[n][2])
         IN  IF r.err # "" THEN r
             ELSE replace_each_backwards(r.heap, o, SubSeq(pairs, 1, n - 1))

\* for i, replacement in pairs: modified_list[i] = replacement
RECURSIVE replace_each(_, _, _)
replace_each(hp, o, pairs) ==
    IF Len(pairs) = 0 THEN [err |-> "", heap |-> hp]
    ELSE LET r == setitem(hp, o, Head(pairs)[1], Head(pairs)[2])
         IN  IF r.err # "" THEN r ELSE replace_each(r.heap, o, Tail(pairs))

\* The layers picked once each, a repeated index skipped.
RECURSIVE pick_each_once(_, _, _)
pick_each_once(hp, o, indices) ==
    IF Len(indices) = 0 THEN Ok(<<>>)
    ELSE LET n == Len(indices)
             r == getitem(hp, o, indices[n])
             rest == pick_each_once(hp, o, SubSeq(indices, 1, n - 1))
         IN  IF rest.err # "" THEN rest
             ELSE IF r.err # "" THEN r
             ELSE IF \E k \in 1..(n - 1) : indices[k] = indices[n] THEN rest
             ELSE Ok(rest.val \o <<r.val>>)

\* [layer_list[i] for i in indices]: [err, val] with val the list of layers.
RECURSIVE pick_each(_, _, _)
pick_each(hp, o, indices) ==
    IF Len(indices) = 0 THEN Ok(<<>>)
    ELSE LET r == getitem(hp, o, Head(indices))
             rest == pick_each(hp, o, Tail(indices))
         IN  IF r.err # "" THEN r
             ELSE IF rest.err # "" THEN rest
             ELSE Ok(<<r.val>> \o rest.val)

Failed(e, hp) == [err |-> e, heap |-> hp, path |-> <<>>, old |-> 0]

\* assign_key_path remembering the new value instead of the old one.
assign_key_path_enter_keeps_new(hp, model, key_path, value) ==
    LET old_value == get_key_path(hp, model, key_path)
    IN  IF old_value.err # "" THEN Failed(old_value.err, hp)
        ELSE LET w == set_key_path_(hp, model, key_path, value)
             IN  IF w.err # "" THEN Failed(w.err, hp)
                 ELSE [err |-> "", heap |-> w.heap, path |-> key_path,
                       old |-> value]

\* assign_key_path up to the yield.
assign_key_path_enter(hp, model, key_path, value) ==
    LET old_value == get_key_path(hp, model, key_path)
    IN  IF old_value.err # "" THEN Failed(old_value.err, hp)
        ELSE LET w == set_key_path_(hp, model, key_path, value)
             IN  IF w.err # "" THEN Failed(w.err, hp)
                 ELSE [err |-> "", heap |-> w.heap, path |-> key_path,
                       old |-> old_value.val]

\* delete_layers working on the list the model was built with, whatever
\* list is installed when it is called.
delete_layers_enter_on_first_list(hp, model, indices) ==
    LET g == get_transformer_layers(hp, model)
    IN  IF g.err # "" THEN Failed(g.err, hp)
        ELSE IF ~iterable(hp, LayerList) THEN Failed("TypeError", hp)
        ELSE LET modified_list == NewId(hp)
                 d == delete_each(ModuleList(hp, iter(hp, LayerList)),
                                  modified_list, sorted_reverse(indices))
             IN  IF d.err # "" THEN Failed(d.err, hp)
                 ELSE LET w == set_key_path_(d.heap, model, g.path, modified_list)
                      IN  IF w.err # "" THEN Failed(w.err, hp)
                          ELSE [err |-> "", heap |-> w.heap, path |-> g.path,
                                old |-> LayerList]

\* delete_layers up to the yield.
delete_layers_enter(hp, model, indices) ==
    LET g == get_transformer_layers(hp, model)
    IN  IF g.err # "" THEN Failed(g.err, hp)
        ELSE IF ~iterable(hp, g.val) THEN Failed("TypeError", hp)
        ELSE LET modified_list == NewId(hp)
                 d == delete_each(ModuleList(hp, iter(hp, g.val)),
                                  modified_list, sorted_reverse(indices))
             IN  IF d.err # "" THEN Failed(d.err, hp)
                 ELSE LET w == set_key_path_(d.heap, model, g.path, modified_list)
                      IN  IF w.err # "" THEN Failed(w.err, hp)
                          ELSE [err |-> "", heap |-> w.heap, path |-> g.path,
                                old |-> g.val]

\* permute_layers up to the yield; the whole of permute_layers_.
permute_layers_enter(hp, model, indices) ==
    LET g == get_transformer_layers(hp, model)
    IN  IF g.err # "" THEN Failed(g.err, hp)
        ELSE LET picked == pick_each(hp, g.val, indices)
             IN  IF picked.err # "" THEN Failed(picked.err, hp)
                 ELSE LET permuted_list == NewId(hp)
                          w == set_key_path_(ModuleList(hp, picked.val), model,
                                             g.path, permuted_list)
                      IN  IF w.err # "" THEN Failed(w.err, hp)
                          ELSE [err |-> "", heap |-> w.heap, path |-> g.path,
                                old |-> g.val]

\* replace_layers up to the yield.
replace_layers_enter(hp, model, indices, replacements) ==
    LET g == get_transformer_layers(hp, model)
    IN  IF g.err # "" THEN Failed(g.err, hp)
        ELSE IF ~iterable(hp, g.val) THEN Failed("TypeError", hp)
        ELSE LET modified_list == NewId(hp)
                 d == replace_each(ModuleList(hp, iter(hp, g.val)),
                                   modified_list, zip(indices, replacements))
             IN  IF d.err # "" THEN Failed(d.err, hp)
                 ELSE LET w == set_key_path_(d.heap, model, g.path, modified_list)
                      IN  IF w.err # "" THEN Failed(w.err, hp)
                          ELSE [err |-> "", heap |-> w.heap, path |-> g.path,
                                old |-> g.val]

\* A context manager without try/finally: nothing is restored when the body
\* raises.
scope_exit_without_finally(hp, model, frame, pending) ==
    IF pending # "" THEN [heap |-> hp, exc |-> pending, writes |-> 0]
    ELSE LET w == set_key_path_(hp, model, frame.path, frame.old)
         IN  IF w.err # "" THEN [heap |-> hp, exc |-> w.err, writes |-> 0]
             ELSE [heap |-> w.heap, exc |-> pending, writes |-> 1]

\* The finally block of a context manager, run with `pending` the exception
\* that is leaving the body ("" when the body completed): [heap, exc, writes].
\* An exception raised by the block itself replaces the pending one.
scope_exit(hp, model, frame, pending) ==
    LET w == set_key_path_(hp, model, frame.path, frame.old)
    IN  IF w.err # "" THEN [heap |-> hp, exc |-> w.err, writes |-> 0]
        ELSE [heap |-> w.heap, exc |-> pending, writes |-> 1]


-----------------------------------------------------------------------------
(* The state machine *)

OPS == {"assign_key_path", "delete_layers", "permute_layers", "replace_layers"}

NoEvent ==
    [ev |-> "init", op |-> "", path |-> <<>>, indices |-> <<>>,
     replacements |-> <<>>, value |-> 0, err |-> "", delivered |-> "",
     pending |-> "", writes |-> 0, pre |-> Raise(""), preMods |-> <<>>,
     direct |-> FALSE, wrote |-> FALSE, permuted |-> FALSE, depth |-> 0,
     before |-> <<>>]

Init ==
    /\ \E arch \in Archs : heap = Model(arch)
    /\ stack = <<>>
    /\ exc = ""
    /\ calls = 0
    /\ last = NoEvent

\* A call may be made: no exception is in flight and the run has calls left.
CanCall(bound) == exc = "" /\ calls < bound

\* What get_key_path gives at `path`, and the children of the object found.
Resolved(hp, path) == get_key_path(hp, ROOT, path)

ModsAt(hp, path) ==
    IF Resolved(hp, path).err = "" THEN hp[Resolved(hp, path).val].modules ELSE <<>>

\* A with-statement is entered: `r` is what the code before the yield gave.
\* A failure at top level reaches the caller; inside a body it leaves the body.
Enter(op, r, ev) ==
    /\ calls' = calls + 1
    /\ heap' = r.heap
    /\ IF r.err = ""
       THEN /\ stack' = Append(stack,
                   [op |-> op, path |-> r.path, old |-> r.old,
                    inst |-> Resolved(r.heap, r.path).val,
                    pre |-> Resolved(heap, r.path),
                    preMods |-> ModsAt(heap, r.path),
                    direct |-> /\ stack # <<>>
                               /\ stack[Len(stack)].op # "assign_key_path"
                               /\ Resolved(heap, r.path) = Ok(stack[Len(stack)].inst),
                    wrote |-> FALSE, permuted |-> FALSE])
            /\ exc' = ""
            /\ last' = [ev EXCEPT !.ev = "enter", !.op = op, !.path = r.path,
                                  !.pre = Resolved(heap, r.path),
                                  !.preMods = ModsAt(heap, r.path),
                                  !.depth = Len(stack), !.before = heap]
       ELSE /\ stack' = stack
            /\ exc' = IF stack = <<>> THEN "" ELSE r.err
            /\ last' = [ev EXCEPT !.ev = "fail", !.op = op, !.err = r.err,
                                  !.delivered = IF stack = <<>> THEN r.err ELSE "",
                                  !.depth = Len(stack), !.before = heap]

AssignKeyPath ==
    /\ CanCall(MaxCalls) /\ Len(stack) < MaxDepth
    /\ \E key_path \in KeyPaths(heap), value \in Values :
          Enter("assign_key_path",
                assign_key_path_enter(heap, ROOT, key_path, value),
                [NoEvent EXCEPT !.path = key_path, !.value = value])

DeleteLayersOn(lists, bound) ==
    /\ CanCall(bound) /\ Len(stack) < MaxDepth
    /\ \E indices \in lists :
          Enter("delete_layers", delete_layers_enter(heap, ROOT, indices),
                [NoEvent EXCEPT !.indices = indices])

DeleteLayers == DeleteLayersOn(IndexLists, MaxCalls)

PermuteLayersOn(lists, bound) ==
    /\ CanCall(bound) /\ Len(stack) < MaxDepth
    /\ \E indices \in lists :
          Enter("permute_layers", permute_layers_enter(heap, ROOT, indices),
                [NoEvent EXCEPT !.indices = indices])

PermuteLayers == PermuteLayersOn(IndexLists, MaxCalls)

ReplaceLayersOn(lists, bound) ==
    /\ CanCall(bound) /\ Len(stack) < MaxDepth
    /\ \E indices \in lists, replacements \in ReplacementLists :
          Enter("replace_layers",
                replace_layers_enter(heap, ROOT, indices, replacements),
                [NoEvent EXCEPT !.indices = indices, !.replacements = replacements])

ReplaceLayers == ReplaceLayersOn(IndexLists, MaxCalls)

\* A plain call (no scope): `r` is [err, heap].  Every scope that is open
\* notes that its body wrote to the model for good.
Call(op, r, ev) ==
    /\ calls' = calls + 1
    /\ heap' = r.heap
    /\ exc' = IF stack = <<>> THEN "" ELSE r.err
    /\ stack' = IF r.err # "" THEN stack
                ELSE [i \in 1..Len(stack) |->
                         [stack[i] EXCEPT
                             !.wrote = TRUE,
                             !.permuted = @ \/ (op = "permute_layers_" /\ i = Len(stack))]]
    /\ last' = [ev EXCEPT !.ev = IF r.err = "" THEN "call" ELSE "fail",
                          !.op = op, !.err = r.err,
                          !.delivered = IF stack = <<>> THEN r.err ELSE "",
                          !.depth = Len(stack), !.before = heap]

PermuteLayersInPlaceOn(lists, bound) ==
    /\ CanCall(bound)
    /\ \E indices \in lists :
          LET r == permute_layers_enter(heap, ROOT, indices)
          IN  Call("permute_layers_", r,
                   [NoEvent EXCEPT !.indices = indices, !.path = r.path,
                                   !.pre = IF r.err = "" THEN Ok(r.old) ELSE Raise(r.err)])

PermuteLayersInPlace == PermuteLayersInPlaceOn(IndexLists, MaxCalls)

SetKeyPath ==
    /\ CanCall(MaxCalls)
    /\ \E key_path \in KeyPaths(heap), value \in Values :
          Call("set_key_path_", set_key_path_(heap, ROOT, key_path, value),
               [NoEvent EXCEPT !.path = key_path, !.value = value])

\* set_key_path_(model, path, get_key_path(model, path)) for a path that resolves.
SetBack ==
    /\ CanCall(MaxCalls)
    /\ \E key_path \in KeyPaths(heap) :
          /\ Resolved(heap, key_path).err = ""
          /\ Call("set_back",
                  set_key_path_(heap, ROOT, key_path, Resolved(heap, key_path).val),
                  [NoEvent EXCEPT !.path = key_path,
                                  !.value = Resolved(heap, key_path).val])

\* The body of the innermost with-statement raises.
BodyRaise ==
    /\ exc = "" /\ stack # <<>>
    /\ exc' = "BodyError"
    /\ last' = [NoEvent EXCEPT !.ev = "raise", !.err = "BodyError",
                                !.depth = Len(stack), !.before = heap]
    /\ UNCHANGED <<heap, stack, calls>>

\* Control leaves the innermost with-statement: its finally block runs; an
\* exception still pending when the last scope is left reaches the caller.
ExitScope ==
    /\ stack # <<>>
    /\ LET frame == stack[Len(stack)]
           r == scope_exit(heap, ROOT, frame, exc)
           rest == SubSeq(stack, 1, Len(stack) - 1)
       IN  /\ heap' = r.heap
           /\ stack' = rest
           /\ exc' = IF rest = <<>> THEN "" ELSE r.exc
           /\ last' = [NoEvent EXCEPT !.ev = "exit", !.op = frame.op,
                           !.path = frame.path, !.pending = exc,
                           !.err = r.exc, !.writes = r.writes,
                           !.delivered = IF rest = <<>> THEN r.exc ELSE "",
                           !.pre = frame.pre, !.preMods = frame.preMods,
                           !.direct = frame.direct, !.wrote = frame.wrote,
                           !.permuted = frame.permuted,
                           !.depth = Len(stack), !.before = heap]
    /\ UNCHANGED calls

Next ==
    \/ AssignKeyPath
    \/ DeleteLayers
    \/ PermuteLayers
    \/ ReplaceLayers
    \/ PermuteLayersInPlace
    \/ SetKeyPath
    \/ SetBack
    \/ BodyRaise
    \/ ExitScope

Spec == Init /\ [][Next]_vars

\* Nesting alone: a GPT-2 model, the layer operations with indices in
\* 0..NumLayers-1 only, and one call more, so that a body inside two scopes
\* can still call permute_layers_.
ValidIndexLists == SeqsUpTo(0..(NumLayers - 1), MaxIndices)

InitNested ==
    /\ heap = Model("GPT2Model")
    /\ stack = <<>>
    /\ exc = ""
    /\ calls = 0
    /\ last = NoEvent

NestedDeleteLayers == DeleteLayersOn(ValidIndexLists, MaxCalls + 1)

NestedPermuteLayers == PermuteLayersOn(ValidIndexLists, MaxCalls + 1)

NestedReplaceLayers == ReplaceLayersOn(ValidIndexLists, MaxCalls + 1)

NestedPermuteLayersInPlace == PermuteLayersInPlaceOn(ValidIndexLists, MaxCalls + 1)

NextNested ==
    \/ NestedDeleteLayers
    \/ NestedPermuteLayers
    \/ NestedReplaceLayers
    \/ NestedPermuteLayersInPlace
    \/ BodyRaise
    \/ ExitScope

SpecNested == InitNested /\ [][NextNested]_vars


-----------------------------------------------------------------------------
(* Properties *)

IsLayerOp(op) == op \in {"delete_layers", "permute_layers", "replace_layers"}

\* The path resolves, after the exit, to the object it resolved to before the
\* scope was entered, and that object has the children it had then.
RestoredAtExit ==
    /\ Resolved(heap, last.path) = last.pre
    /\ ModsAt(heap, last.path) = last.preMods

\* C1 as claimed: after any scoped operation has exited, normally or by a
\* raise, get_key_path at the mutated path returns the very object (same
\* reference, same elements in the same order) it returned before entry.
C1_RestoredAfterEveryScope ==
    last.ev = "exit" => RestoredAtExit

\* C1 amended: the same after delete_layers, permute_layers and replace_layers
\* whatever the body wrote at or below the layer-list path, and after
\* assign_key_path provided the body left no permanent write behind.
C1_RestoredUnlessBodyWrote ==
    (last.ev = "exit" /\ (IsLayerOp(last.op) \/ ~last.wrote)) => RestoredAtExit

\* An assign_key_path scope whose body raised has exited and its restoring
\* write changed the model back.
C1_Witness ==
    /\ last.ev = "exit" /\ last.op = "assign_key_path"
    /\ last.pending = "BodyError" /\ ~last.wrote
    /\ heap # last.before /\ RestoredAtExit

\* Leaving the scope made the restoring write once and let through what the
\* body raised, nothing else; the caller sees it when no scope is left.
RestoredOnce ==
    /\ last.writes = 1
    /\ last.err = last.pending
    /\ exc = (IF stack = <<>> THEN "" ELSE last.pending)
    /\ stack = <<>> => last.delivered = last.pending

\* C2 as claimed: leaving a scope performs the restoring write exactly once,
\* whether the body completed or raised; a failure raised by the body is
\* still the one in flight after the write, and it reaches the caller only
\* once every scope has been left.
C2_RestoreOnceThenPropagate ==
    /\ last.ev = "exit" => RestoredOnce
    /\ last.delivered # "" => stack = <<>> /\ exc = ""

\* C2 amended: the same for delete_layers, permute_layers and replace_layers
\* whatever the body wrote, and for assign_key_path provided the body left no
\* permanent write behind.
C2_RestoreOnceUnlessBodyWrote ==
    /\ (last.ev = "exit" /\ (IsLayerOp(last.op) \/ ~last.wrote)) => RestoredOnce
    /\ last.delivered # "" => stack = <<>> /\ exc = ""

\* The body of a scope raised, the restoring write was made, and the body's
\* failure reached the caller.
C2_Witness ==
    /\ last.ev = "exit" /\ last.pending = "BodyError" /\ ~last.wrote
    /\ last.writes = 1 /\ last.delivered = "BodyError"
    /\ heap # last.before


-----------------------------------------------------------------------------
(* Layer operations: what the last step was given and what it left. *)

IsIndexOp(op) == IsLayerOp(op) \/ op = "permute_layers_"

\* The last step ran an operation that takes indices.
Ran(op) == last.op = op /\ last.ev \in {"enter", "call", "fail"}

\* The layer list before the step, as get_transformer_layers locates it.
Located == get_transformer_layers(last.before, ROOT)

HadList ==
    /\ last.before # <<>>
    /\ Located.err = ""
    /\ iterable(last.before, Located.val)

OldItems == iter(last.before, Located.val)

\* The children are keyed "0", "1", ... in order: key and position agree.
WellFormed(hp, o) ==
    \A i \in 1..Len(hp[o].modules) : hp[o].modules[i].k = str(i - 1)

NewList == Resolved(heap, Located.path).val

NewItems == iter(heap, NewList)

\* The module that holds the layer list as an attribute.
BaseOwner ==
    walk(last.before, ROOT,
         SubSeq(split(Located.path), 1, Len(split(Located.path)) - 1)).val

\* The list now at the path is an object that did not exist before the step;
\* the original list and every layer are as they were.
BuiltNewList ==
    /\ Resolved(heap, Located.path).err = ""
    /\ NewList \notin DOMAIN last.before
    /\ heap[NewList].cls = "ModuleList"
    /\ WellFormed(heap, NewList)
    /\ \A o \in DOMAIN last.before : heap[o] = last.before[o] \/ o = BaseOwner

\* The step left the model as it was and entered no scope.
LeftUnmodified == heap = last.before /\ Len(stack) = last.depth

\* The scope was entered: a frame holds the original list for the exit.
ScopeHoldsOriginal ==
    /\ Len(stack) = last.depth + 1
    /\ stack[Len(stack)].old = Located.val

Positions(n) == 0..(n - 1)

\* The items whose position is not in S, in their order.
RECURSIVE Without(_, _, _)
Without(items, S, p) ==
    IF p > Len(items) THEN <<>>
    ELSE (IF (p - 1) \in S THEN <<>> ELSE <<items[p]>>) \o Without(items, S, p + 1)

IndexSet(indices) == {indices[i] : i \in 1..Len(indices)}

Distinct(indices) ==
    \A i, j \in 1..Len(indices) : i # j => indices[i] # indices[j]

\* How many (index, replacement) pairs replace_layers uses.
Used == IF Len(last.indices) < Len(last.replacements)
        THEN Len(last.indices) ELSE Len(last.replacements)


\* C3: inside a delete_layers scope entered with a set S of distinct valid
\* positions of the n-layer list, the list at the located path is a new
\* sequence of length n - |S| holding exactly the original layers whose
\* position is not in S, in their original order, whatever the order in which
\* the indices were given.
C3_DeleteKeepsTheOthers ==
    (/\ Ran("delete_layers") /\ HadList
     /\ Distinct(last.indices)
     /\ IndexSet(last.indices) \subseteq Positions(Len(OldItems)))
    => /\ last.ev = "enter"
       /\ BuiltNewList /\ ScopeHoldsOriginal
       /\ NewItems = Without(OldItems, IndexSet(last.indices), 1)
       /\ Len(NewItems) = Len(OldItems) - Len(last.indices)

\* Two positions given in ascending order were deleted together.
C3_Witness ==
    /\ Ran("delete_layers") /\ last.ev = "enter"
    /\ Len(last.indices) = 2 /\ last.indices[1] < last.indices[2]
    /\ last.indices[1] >= 0
    /\ Len(OldItems) = NumLayers /\ Len(NewItems) = NumLayers - 2

PermuteRan ==
    /\ (Ran("permute_layers") \/ Ran("permute_layers_")) /\ HadList
    /\ IndexSet(last.indices) \subseteq Positions(Len(OldItems))

PermutePicked ==
    /\ last.ev = IF last.op = "permute_layers" THEN "enter" ELSE "call"
    /\ BuiltNewList
    /\ Len(NewItems) = Len(last.indices)
    /\ \A i \in 1..Len(last.indices) : NewItems[i] = OldItems[last.indices[i] + 1]
    /\ IF last.op = "permute_layers" THEN ScopeHoldsOriginal
       ELSE Len(stack) = last.depth

\* C4 as claimed: given any list of valid indices, permute_layers (inside its
\* scope) and permute_layers_ (after the call) leave at the located path a
\* new sequence as long as the list of indices whose i-th element is the
\* original layer at position indices[i]: a repeated index gives the same
\* layer twice, an omitted one drops the layer; permute_layers_ registers
\* nothing that would restore the original.
C4_PermutePicksByIndex ==
    PermuteRan => PermutePicked

\* C4 amended: the same on a layer list whose entries are keyed by their
\* positions, which a list is until something is assigned on it under a name
\* that is not one of its positions.
C4_PermutePicksByIndexOfKeyedList ==
    (PermuteRan /\ WellFormed(last.before, Located.val)) => PermutePicked

\* A permutation that repeats one layer and drops another was installed.
C4_Witness ==
    /\ PermuteRan /\ WellFormed(last.before, Located.val) /\ last.ev # "fail"
    /\ Len(last.indices) = 2 /\ last.indices[1] = last.indices[2]
    /\ last.indices[1] >= 0
    /\ Len(OldItems) = NumLayers
    /\ NewItems[1] = NewItems[2]

ReplaceRan ==
    /\ Ran("replace_layers") /\ HadList
    /\ \A k \in 1..Used : last.indices[k] \in Positions(Len(OldItems))

ReplaceKeepsTheRest ==
    /\ last.ev = "enter"
    /\ BuiltNewList /\ ScopeHoldsOriginal
    /\ Len(NewItems) = Len(OldItems)
    /\ \A p \in 1..Len(OldItems) :
          (\A k \in 1..Used : last.indices[k] # p - 1) => NewItems[p] = OldItems[p]

\* C5 as claimed: inside a replace_layers scope with valid indices the list is
\* a new sequence of the original length in which position indices[k] holds
\* replacements[k] for every k below the length of the shorter input, and
\* every other position holds the original layer.
C5_ReplaceEveryPair ==
    ReplaceRan =>
       /\ ReplaceKeepsTheRest
       /\ \A k \in 1..Used : NewItems[last.indices[k] + 1] = last.replacements[k]

\* C5 amended: as claimed, but a position named by several of the used
\* indices holds the replacement paired with the last of them.
C5_ReplaceLastPairWins ==
    ReplaceRan =>
       /\ ReplaceKeepsTheRest
       /\ \A k \in 1..Used :
             (\A j \in (k + 1)..Used : last.indices[j] # last.indices[k])
             => NewItems[last.indices[k] + 1] = last.replacements[k]

\* More indices than replacements were given: the surplus index was ignored
\* and its layer kept.
C5_Witness ==
    /\ ReplaceRan /\ last.ev = "enter"
    /\ Len(last.indices) = 2 /\ Len(last.replacements) = 1
    /\ last.indices[1] # last.indices[2]
    /\ last.indices[2] \in Positions(Len(OldItems))
    /\ NewItems[last.indices[1] + 1] = X
    /\ NewItems[last.indices[2] + 1] = OldItems[last.indices[2] + 1]

IndexErrorRaised ==
    /\ last.ev = "fail" /\ last.err = "IndexError"
    /\ LeftUnmodified
    /\ Resolved(heap, Located.path) = Ok(Located.val)
    /\ iter(heap, Located.val) = OldItems

\* The indices the operation reads: all of them, but for replace_layers only
\* those that zip pairs with a replacement.
ReadIndices ==
    IF last.op = "replace_layers" THEN SubSeq(last.indices, 1, Used)
    ELSE last.indices

IndexOpRan ==
    /\ IsIndexOp(last.op) /\ Ran(last.op) /\ HadList
    /\ WellFormed(last.before, Located.val)

-----------------------------------------------------------------------------
(* Key paths: what set_key_path_ is said to do. *)

LastKeys == split(last.path)

\* What every segment of the path but the last resolves to, before the step.
Holder == walk(last.before, ROOT, SubSeq(LastKeys, 1, Len(LastKeys) - 1))

\* The write the documentation describes: index-assignment for a numeric last
\* segment, attribute-assignment otherwise.
DocumentedWrite ==
    IF Holder.err # "" THEN [err |-> Holder.err, heap |-> last.before]
    ELSE set_value_for_key_(last.before, Holder.val, LastKeys[Len(LastKeys)],
                            last.value)

\* C7: set_key_path_ resolves every segment but the last as get_key_path does
\* and writes the value at the last one, by index-assignment when that segment
\* is all digits and by attribute-assignment otherwise, so that get_key_path
\* then returns the value.
C7_SetWritesAtLastSegment ==
    (last.op = "set_key_path_" /\ last.ev \in {"call", "fail"})
    => /\ last.err = DocumentedWrite.err
       /\ heap = DocumentedWrite.heap
       /\ last.err = "" => Resolved(heap, last.path) = Ok(last.value)

\* C8: for every path that get_key_path resolves, with a name or an index as
\* its last segment, set_key_path_(M, P, get_key_path(M, P)) succeeds and
\* changes nothing: every path resolves as before.
C8_SetBackIsNoOp ==
    (last.op = "set_back" /\ last.ev \in {"call", "fail"})
    => /\ last.err = ""
       /\ heap = last.before
       /\ \A p \in KeyPaths(heap) : Resolved(heap, p) = Resolved(last.before, p)

-----------------------------------------------------------------------------
(* Locating the layer list. *)

Recognized ==
    {"OPTModel", "GPTNeoXModel", "BloomModel", "GPT2Model", "GPTNeoModel",
     "GPTJModel"}

\* What get_transformer_layers must give on a model of class `arch`.
LocatesOrFails(hp) ==
    LET arch == ArchOf(hp)
        g == get_transformer_layers(hp, ROOT)
    IN  IF arch = "none" THEN g.err = "ValueError"
        ELSE IF arch \notin Recognized THEN g.err = "NotImplementedError"
        ELSE /\ g.path = TreePath(arch)
             /\ [err |-> g.err, val |-> g.val] = Resolved(hp, TreePath(arch))
             /\ g.err = ""

\* C9: get_transformer_layers fails with ValueError on a model without
\* base_model, with NotImplementedError on a base_model of no recognized
\* class, and otherwise returns the class's path and what get_key_path
\* resolves there; a layer operation called on a model of the first two kinds
\* fails the same way, writes nothing and enters no scope.
C9_LocateOrFail ==
    /\ LocatesOrFails(heap)
    /\ (IsIndexOp(last.op) /\ Ran(last.op)) =>
          LET arch == ArchOf(last.before)
          IN  IF arch = "none"
              THEN last.ev = "fail" /\ last.err = "ValueError" /\ LeftUnmodified
              ELSE IF arch \notin Recognized
              THEN /\ last.ev = "fail" /\ last.err = "NotImplementedError"
                   /\ LeftUnmodified
              ELSE /\ last.err \notin {"ValueError", "NotImplementedError"}
                   /\ last.ev # "fail" =>
                         /\ last.path = TreePath(arch)
                         /\ last.pre = Resolved(last.before, TreePath(arch))

\* A scoped layer operation was called on a model whose base_model is of no
\* recognized class and failed before installing anything.
C9_Witness ==
    /\ IsLayerOp(last.op) /\ last.ev = "fail"
    /\ last.err = "NotImplementedError"
    /\ hasattr(heap, ROOT, BASE_MODEL) /\ LeftUnmodified

-----------------------------------------------------------------------------
(* Nesting. *)

\* The position a (possibly negative) index in range names.
Norm(i, n) == IF i < 0 THEN i + n ELSE i

\* C10: layer scopes nest.  An inner scope entered right inside an outer one
\* works on the list the outer scope installed, not on the original; leaving
\* it puts the outer scope's list back; leaving the outermost scope puts the
\* original list back, also when a body called permute_layers_.
C10_NestedScopesCompose ==
    /\ (/\ IsLayerOp(last.op) /\ last.ev = "enter" /\ last.depth >= 1
        /\ stack[Len(stack)].direct) =>
          LET outer == stack[last.depth]
              inner == stack[Len(stack)]
              base == iter(last.before, outer.inst)
              n == Len(base)
          IN  /\ inner.old = outer.inst /\ inner.old # outer.old
              /\ BuiltNewList /\ NewList # outer.inst
              /\ last.op = "permute_layers" =>
                    NewItems = [i \in 1..Len(last.indices) |->
                                   base[Norm(last.indices[i], n) + 1]]
              /\ (/\ last.op = "delete_layers" /\ Distinct(last.indices)
                  /\ IndexSet(last.indices) \subseteq Positions(n)) =>
                    NewItems = Without(base, IndexSet(last.indices), 1)
              /\ last.op = "replace_layers" =>
                    /\ Len(NewItems) = n
                    /\ \A p \in 1..n :
                          (\A k \in 1..Used : Norm(last.indices[k], n) # p - 1)
                          => NewItems[p] = base[p]
    /\ (IsLayerOp(last.op) /\ last.ev = "exit" /\ last.direct) =>
          /\ stack # <<>>
          /\ Resolved(heap, last.path) = Ok(stack[Len(stack)].inst)
          /\ stack[Len(stack)].old # stack[Len(stack)].inst
    /\ (IsLayerOp(last.op) /\ last.ev = "exit" /\ stack = <<>>) => RestoredAtExit

\* An inner layer scope, entered inside an outer one that had shortened the
\* list, was left after its body had called permute_layers_, and the outer
\* scope's list is back in place.
C10_Witness ==
    /\ IsLayerOp(last.op) /\ last.ev = "exit" /\ last.direct /\ last.permuted
    /\ heap # last.before
    /\ Resolved(heap, last.path) = Ok(stack[Len(stack)].inst)
    /\ len(heap, stack[Len(stack)].inst) < len(heap, stack[Len(stack)].old)

=============================================================================
